---- MODULE Spec2Model ----
(***************************************************************************)
(* Model of the aggregation engine of ai-news-agent (news_fetcher.py with  *)
(* the configuration of sources_config.py): the per-source cache store,    *)
(* the fetch strategies, the deduplicator and filter, the relevance        *)
(* scorer and the aggregation call fetch_recent_articles.                  *)
(*                                                                         *)
(* Time is counted in whole hours.  Strings are modelled by the features   *)
(* the code looks at: a URL by its host, path, query and letter case, a    *)
(* title by its words, its letter case, its punctuation and its length.    *)
(***************************************************************************)
EXTENDS Integers, Sequences, FiniteSets, TLC

VARIABLES
    env,            \* the environment of the process, read at import
    now,            \* datetime.now(), in hours
    cache,          \* CACHE_DIR: cache key -> file
    pc,             \* position of fetch_recent_articles
    profile,        \* argument profile of the running call
    sources,        \* local sources: the names of the profile's sources, in order
    max_articles,   \* argument max_articles of the running call
    idx,            \* number of sources of the loop already fetched
    all_articles,   \* local all_articles of fetch_recent_articles
    visited,        \* history: the stages fetched by this call and their counts
    pool,           \* history: all_articles after deduplication and filtering
    scoredAt,       \* history: the value of now used by the sort
    result,         \* the list returned by the call
    lastPut,        \* history: for every cache key, the latest save_to_cache
    lastGet,        \* history: the fetch_from_source that has just returned
    ddg,            \* the running call of search_duckduckgo: its locals and history
    feeds,          \* the world: the condition of the feeds that change
    dyn_cache,      \* the file DYNAMIC_SOURCES_CACHE
    mgr,            \* _manager and the running call of get_dynamic_sources
    mlog,           \* history: what the running call of get_dynamic_sources did
    ext,            \* the last call of extract_article_text: its inputs and what it gave
    race,           \* one cache file with the processes that write and read it
    strat,          \* the last call of a fetch strategy on a long response
    disc,           \* the last direct call of discover_new_sources
    catalog,        \* the dicts of PROFILE_MAP and the last call that read them
    trig            \* one scheduled trigger of execute_briefing_workflow

vars == <<env, now, cache, pc, profile, sources, max_articles, idx, all_articles, visited,
          pool, scoredAt, result, lastPut, lastGet, ddg, feeds, dyn_cache, mgr, mlog,
          ext, race, strat, disc, catalog, trig>>

\* the state of the aggregation engine
coreVars == <<env, cache, pc, profile, sources, max_articles, idx, all_articles, visited,
              pool, scoredAt, result, lastPut, lastGet>>

\* the state of the operations followed on their own
mgrVars == <<feeds, dyn_cache, mgr, mlog>>
laterVars == <<race, strat, disc, catalog, trig>>
auxVars == <<ddg, mgrVars, ext, laterVars>>

callVars == <<pc, profile, sources, max_articles, idx, all_articles, visited, pool,
              scoredAt, result>>

-----------------------------------------------------------------------------
(* Bounds of the model *)

MaxTime == 2
MaxItems == 2
MaxLimit == 4

(* Configuration read from the environment, in the units of the model *)

\* CACHE_CONFIG['ttl_seconds'], in hours
ttl_seconds == 2
\* FILTER_CONFIG['lookback_hours']
lookback_hours == 2

(* Program constants *)

max_articles_per_source == 5
arxiv_entry_cap == 20
reddit_post_cap == 15
min_title_length == 15
search_query_cap == 3
max_per_domain == 3

-----------------------------------------------------------------------------
(* Values *)

Min(a, b) == IF a <= b THEN a ELSE b
Max(a, b) == IF a >= b THEN a ELSE b

\* the slice one element short, s[:n - 1]
SliceBelow(s, n) ==
    IF n >= 1 THEN SubSeq(s, 1, Min(n - 1, Len(s)))
    ELSE SubSeq(s, 1, Max(0, Len(s) + n - 1))

\* Python's s[:n], negative n included
Slice(s, n) ==
    IF n >= 0 THEN SubSeq(s, 1, Min(n, Len(s)))
    ELSE SubSeq(s, 1, Max(0, Len(s) + n))

\* dict.get(key, default) on a key that may be absent, null or a number
Absent == [tag |-> "absent", n |-> 0]
None == [tag |-> "none", n |-> 0]
Int_(n) == [tag |-> "int", n |-> n]

Get(field, default) == IF field.tag = "absent" THEN default ELSE field

Url(dom, path, upper) == [dom |-> dom, path |-> path, query |-> 0, upper |-> upper]
NoUrl == [dom |-> "", path |-> 0, query |-> 0, upper |-> FALSE]

Title(text, upper, punct) == [text |-> text, upper |-> upper, punct |-> punct]
NoTitle == [text |-> 0, upper |-> FALSE, punct |-> FALSE]

\* number of characters of the words of a title; title 5 is one short of the minimum
WordsLen(text) == IF text = 0 THEN 0 ELSE IF text = 5 THEN 14 ELSE 20 + text

len(title) == WordsLen(title.text) + (IF title.punct THEN 1 ELSE 0)

\* the string as it is
keep_case(s) == s

\* str.lower()
lower(s) == [s EXCEPT !.upper = FALSE]

\* re.sub(r'[^\w\s]', '', title)
strip_punctuation(title) == [title EXCEPT !.punct = FALSE]

\* datetime.isoformat() and datetime.fromisoformat(): a timezone-aware
\* datetime carries its offset in the text
isoformat(dt) == <<dt.t, IF dt.aware THEN "+00:00" ELSE "">>
fromisoformat(s) == [t |-> s[1], aware |-> s[2] # ""]

Naive(t) == [t |-> t, aware |-> FALSE]
Aware(t) == [t |-> t, aware |-> TRUE]

-----------------------------------------------------------------------------
(* sources_config.py: the catalog, restricted to one source of each of three *)
(* fetch kinds, in the order of ALL_SOURCES                                  *)

ALL_SOURCES == <<"arxiv", "mit_news", "reddit_machinelearning">>

SourceConfig(name) ==
    CASE name = "arxiv" ->
            [type |-> "arxiv_api", weight |-> 10, category |-> "academic"]
      [] name = "mit_news" ->
            [type |-> "rss", weight |-> 9, category |-> "academic"]
      [] name = "reddit_machinelearning" ->
            [type |-> "reddit_api", weight |-> 6, category |-> "community"]

InCategory(name, category, min_weight) ==
    /\ SourceConfig(name).category = category
    /\ SourceConfig(name).weight >= min_weight

PROFILE_MAP(p) ==
    CASE p = "academic" ->
            SelectSeq(ALL_SOURCES, LAMBDA n : InCategory(n, "academic", 0))
      [] p = "news" ->
            SelectSeq(ALL_SOURCES, LAMBDA n : InCategory(n, "news", 0))
      [] p = "comprehensive" -> ALL_SOURCES
      [] p = "balanced" ->
            SelectSeq(ALL_SOURCES, LAMBDA n : \/ InCategory(n, "academic", 8)
                                              \/ InCategory(n, "industry", 8)
                                              \/ InCategory(n, "news", 7)
                                              \/ InCategory(n, "community", 7))
      [] p = "quick" -> <<"mit_news">>

ProfileNames == {"academic", "news", "comprehensive", "balanced", "quick"}

\* the profile names a caller passes; "extended" is no key of PROFILE_MAP
CallerProfiles == {"comprehensive", "quick", "news", "extended"}

get_sources_by_profile(p, env_profile) ==
    LET chosen == IF env_profile \in ProfileNames THEN env_profile ELSE p
    IN  IF chosen \in ProfileNames THEN PROFILE_MAP(chosen) ELSE PROFILE_MAP("balanced")

\* the environment of the process: ENABLE_CACHING (CACHE_CONFIG['enabled']),
\* ENABLE_REALTIME_SEARCH (REALTIME_SEARCH_CONFIG['enabled']) and FEED_PROFILE
Environments == [caching : BOOLEAN, realtime_search : BOOLEAN]

\* the values of FEED_PROFILE, read by every call: unset, or a profile name
FeedProfiles == {"", "quick"}

\* FILTER_CONFIG['exclude_keywords'], from EXCLUDE_KEYWORDS
exclude_keywords == {"sponsored"}

-----------------------------------------------------------------------------
(* Cache store: load_from_cache, save_to_cache *)

\* get_cache_key: the key is the hash of the source's name and url
get_cache_key(source_name) == source_name

CacheKeys == {get_cache_key(ALL_SOURCES[i]) : i \in 1..Len(ALL_SOURCES)}

\* a cache file: absent, a JSON document, or a file cut short by a failed write
NoFile == [kind |-> "absent", timestamp |-> <<0, "">>, articles |-> <<>>]
Partial == [kind |-> "partial", timestamp |-> <<0, "">>, articles |-> <<>>]

\* json.dump / json.load of one article: None is written as null
json_value(field) == IF field.tag = "none" THEN [field EXCEPT !.tag = "null"] ELSE field
py_value(field) == IF field.tag = "null" THEN [field EXCEPT !.tag = "none"] ELSE field

json_dump(articles) ==
    [i \in 1..Len(articles) |->
        [articles[i] EXCEPT !.points = json_value(@), !.score = json_value(@),
                            !.source_weight = json_value(@)]]

json_load(articles) ==
    [i \in 1..Len(articles) |->
        [articles[i] EXCEPT !.points = py_value(@), !.score = py_value(@),
                            !.source_weight = py_value(@)]]

\* the outcome of load_from_cache: None, a list, or an exception
Miss == [hit |-> FALSE, articles |-> <<>>, raised |-> FALSE]
Hit(articles) == [hit |-> TRUE, articles |-> articles, raised |-> FALSE]
Raised == [hit |-> FALSE, articles |-> <<>>, raised |-> TRUE]

\* the entry counted as valid through the last second of its ttl
load_through_ttl(enabled, file, read_ok, t) ==
    IF ~enabled \/ file.kind # "json" \/ ~read_ok THEN Miss
    ELSE IF t - fromisoformat(file.timestamp).t <= ttl_seconds
         THEN Hit(json_load(file.articles))
         ELSE Miss

\* the read without its try block
load_unguarded(enabled, file, read_ok, t) ==
    IF ~enabled \/ file.kind = "absent" THEN Miss
    ELSE IF ~read_ok \/ file.kind = "partial" THEN Raised
    ELSE IF t - fromisoformat(file.timestamp).t < ttl_seconds
         THEN Hit(json_load(file.articles))
         ELSE Miss

\* read_ok = FALSE: open() or json.load() raises
load_from_cache(enabled, file, read_ok, t) ==
    IF ~enabled THEN Miss
    ELSE IF file.kind = "absent" THEN Miss
    ELSE IF ~read_ok \/ file.kind = "partial" THEN Miss
    ELSE IF t - fromisoformat(file.timestamp).t < ttl_seconds
         THEN Hit(json_load(file.articles))
         ELSE Miss

\* the file written once per article, the last article staying
save_last_article(enabled, file, articles, write, t) ==
    IF ~enabled \/ write = "open_fails" THEN [file |-> file, raised |-> FALSE]
    ELSE IF write = "dump_fails" THEN [file |-> Partial, raised |-> FALSE]
    ELSE [file |-> [kind |-> "json", timestamp |-> isoformat(Naive(t)),
                    articles |-> json_dump(SubSeq(articles, Len(articles),
                                                  Len(articles)))],
          raised |-> FALSE]

\* the articles written after those of the file
save_appending(enabled, file, articles, write, t) ==
    IF ~enabled \/ write = "open_fails" THEN [file |-> file, raised |-> FALSE]
    ELSE IF write = "dump_fails" THEN [file |-> Partial, raised |-> FALSE]
    ELSE [file |-> [kind |-> "json", timestamp |-> isoformat(Naive(t)),
                    articles |-> (IF file.kind = "json" THEN file.articles ELSE <<>>)
                                 \o json_dump(articles)],
          raised |-> FALSE]

\* the file after save_to_cache and whether it raised; write = "ok", "open_fails" (the old file
\* stays) or "dump_fails" (the file was truncated by open and is cut short)
save_to_cache(enabled, file, articles, write, t) ==
    IF ~enabled THEN [file |-> file, raised |-> FALSE]
    ELSE CASE write = "ok" ->
                [file |-> [kind |-> "json", timestamp |-> isoformat(Naive(t)),
                           articles |-> json_dump(articles)],
                 raised |-> FALSE]
           [] write = "open_fails" -> [file |-> file, raised |-> FALSE]
           [] write = "dump_fails" -> [file |-> Partial, raised |-> FALSE]

WriteOutcomes == {"ok", "open_fails", "dump_fails"}

-----------------------------------------------------------------------------
(* What the providers answer.  An item of a response carries the features   *)
(* the strategies read: its title, its link (NoUrl when it has none), its   *)
(* date (absent when ~date.has), its engagement count (absent, null or a    *)
(* number) and the exclusion keywords its title and summary contain.        *)

Item(title, link, date, score, keywords) ==
    [title |-> title, link |-> link, date |-> date,
     score |-> score, keywords |-> keywords]

Dated(dt) == [has |-> TRUE, dt |-> dt]
Undated == [has |-> FALSE, dt |-> Naive(0)]

MapSeq(s, F(_)) == [i \in 1..Len(s) |-> F(s[i])]

\* a provider lists its items in its own order: the responses are the
\* subsequences, of at most MaxItems items, of the provider's list
RECURSIVE SubSeqs(_)
SubSeqs(list) ==
    IF list = <<>> THEN {<<>>}
    ELSE LET rest == SubSeqs(Tail(list))
         IN  rest \cup {<<Head(list)>> \o q : q \in rest}

Responses(list) == {q \in SubSeqs(list) : Len(q) <= MaxItems}

\* the Atom entries of the arXiv API: one of now, one older than the lookback
\* window; arXiv dates end in Z and parse as timezone-aware
ArxivEntries(t) ==
    << Item(Title(1, FALSE, FALSE), Url("arxiv.org", 1, FALSE),
           Dated(Aware(t)), Absent, {}),
      Item(Title(2, FALSE, FALSE), Url("arxiv.org", 2, FALSE),
           Dated(Aware(t - lookback_hours - 1)), Absent, {}) >>

\* the entries of an RSS feed: one of now, one older than the window, one
\* without a date whose title is one character short of the minimum
RssEntries(t) ==
    << Item(Title(3, FALSE, FALSE), Url("news.mit.edu", 1, FALSE),
           Dated(Naive(t)), Absent, {}),
      Item(Title(4, FALSE, FALSE), Url("news.mit.edu", 2, FALSE),
           Dated(Naive(t - lookback_hours - 1)), Absent, {}),
      Item(Title(5, FALSE, FALSE), Url("news.mit.edu", 3, FALSE),
           Undated, Absent, {}) >>

\* the posts of a Reddit listing: a link post to an arXiv page, a post
\* without url whose score is null and whose title is that of an arXiv
\* entry with other case and punctuation, and a link post to the page of
\* that entry with the url in capitals
RedditPosts(t) ==
    << Item(Title(6, FALSE, FALSE), Url("arxiv.org", 3, FALSE),
           Dated(Naive(t - lookback_hours)), Int_(300), {}),
      Item(Title(1, TRUE, TRUE), NoUrl, Dated(Naive(t)), None, {}),
      Item(Title(7, FALSE, FALSE), Url("arxiv.org", 1, TRUE),
           Dated(Naive(t)), Absent, {}) >>

\* the results of a search: an old page, and a result without url whose
\* text holds an excluded keyword
SearchResults(t) ==
    << Item(Title(8, FALSE, FALSE), Url("arxiv.org", 4, FALSE),
           Dated(Naive(t - lookback_hours - 1)), Absent, {}),
      Item(Title(9, FALSE, FALSE), NoUrl, Undated, Absent, {"sponsored"}) >>

-----------------------------------------------------------------------------
(* Fetch strategies *)

Article(title, link, published, keywords, source, source_type, points, score) ==
    [title |-> title, link |-> link, published |-> isoformat(published),
     keywords |-> keywords, source |-> source, source_type |-> source_type,
     points |-> points, score |-> score, source_weight |-> Absent]

\* the date of an item, datetime.now() when the item has none
DateOr(item, t) == IF item.date.has THEN item.date.dt ELSE Naive(t)

\* "Check if within lookback window"
WithinLookback(dt, t) == ~(t - dt.t > lookback_hours)

parse_rss_feed(reachable, entries, source_name, t) ==
    IF ~reachable THEN <<>>
    ELSE LET capped == Slice(entries, max_articles_per_source)
             kept == SelectSeq(capped, LAMBDA e :
                        /\ WithinLookback(DateOr(e, t), t)
                        /\ e.title # NoTitle
                        /\ e.link # NoUrl)
         IN  MapSeq(kept, LAMBDA e :
                Article(e.title, e.link, DateOr(e, t), e.keywords,
                        source_name, "rss", Absent, Absent))

fetch_arxiv_api(reachable, entries, t) ==
    IF ~reachable THEN <<>>
    ELSE LET capped == Slice(entries, arxiv_entry_cap)
             kept == SelectSeq(capped, LAMBDA e : e.link # NoUrl)
         IN  MapSeq(kept, LAMBDA e :
                Article(e.title, e.link, DateOr(e, t), e.keywords,
                        "arXiv", "arxiv_api", Absent, Absent))

fetch_reddit_api(reachable, posts, t) ==
    IF ~reachable THEN <<>>
    ELSE LET capped == Slice(posts, reddit_post_cap)
             kept == SelectSeq(capped, LAMBDA e : WithinLookback(DateOr(e, t), t))
         IN  MapSeq(kept, LAMBDA e :
                Article(e.title, e.link, DateOr(e, t), e.keywords,
                        "Reddit", "reddit_api", Absent, Get(e.score, Int_(0))))

\* available = FALSE: neither search package can be imported, or the search
\* raises an error that is no rate limit
search_duckduckgo(available, results, t) ==
    IF ~available THEN <<>>
    ELSE MapSeq(results, LAMBDA e :
                Article(e.title, e.link, DateOr(e, t), e.keywords,
                        "DuckDuckGo News", "realtime_search", Absent, Absent))

\* the strategy of a source type applied to a response
Strategy(source_name, reachable, response, t) ==
    LET type == SourceConfig(source_name).type
    IN  CASE type = "rss" -> parse_rss_feed(reachable, response, source_name, t)
          [] type = "arxiv_api" -> fetch_arxiv_api(reachable, response, t)
          [] type = "reddit_api" -> fetch_reddit_api(reachable, response, t)
          [] OTHER -> <<>>

\* what the provider of a source can answer at time t
ProviderResponses(source_name, t) ==
    LET type == SourceConfig(source_name).type
    IN  CASE type = "rss" -> Responses(RssEntries(t))
          [] type = "arxiv_api" -> Responses(ArxivEntries(t))
          [] type = "reddit_api" -> Responses(RedditPosts(t))
          [] OTHER -> {<<>>}

\* the outcomes of the request of a strategy: the endpoint is unreachable
\* (or its answer cannot be parsed), or it answers
ProviderOutcomes(source_name, t) ==
    {[reachable |-> FALSE, response |-> <<>>]} \cup
    {[reachable |-> TRUE, response |-> r] : r \in ProviderResponses(source_name, t)}

-----------------------------------------------------------------------------
(* fetch_from_source: cache first, then the strategy, then the cache write *)

\* [articles, file, raised]: load_from_cache is called outside the try block,
\* the strategy and save_to_cache inside it.  The fields cached, saved and
\* save_raised tell what the two cache calls did.
AfterLoad(cached, enabled, file, source_name, reachable, response, write, t) ==
    LET none == [cached |-> cached, saved |-> FALSE, save_raised |-> FALSE]
        served == [invoked |-> FALSE] @@ none
    IN  IF cached.raised
        THEN [articles |-> <<>>, file |-> file, raised |-> TRUE] @@ served
        ELSE IF cached.hit /\ cached.articles # <<>>
        THEN [articles |-> cached.articles, file |-> file, raised |-> FALSE] @@ served
        ELSE LET articles == Strategy(source_name, reachable, response, t)
                 saved == save_to_cache(enabled, file, articles, write, t)
             IN  IF articles # <<>>
                 THEN [articles |-> articles, file |-> saved.file, raised |-> FALSE,
                       cached |-> cached, saved |-> TRUE,
                       save_raised |-> saved.raised, invoked |-> TRUE]
                 ELSE [articles |-> articles, file |-> file, raised |-> FALSE,
                       invoked |-> TRUE] @@ none

fetch_from_source(enabled, file, source_name, reachable, response, read_ok, write, t) ==
    AfterLoad(load_from_cache(enabled, file, read_ok, t), enabled, file,
              source_name, reachable, response, write, t)

\* fetch_realtime_search_results: the first queries of the configured list,
\* one search each
NumSearchQueries == 1

SearchQueries == 1..Min(NumSearchQueries, search_query_cap)

RECURSIVE SearchFrom(_, _, _)
SearchFrom(outcomes, i, t) ==
    IF i = 0 THEN <<>>
    ELSE SearchFrom(outcomes, i - 1, t) \o
         search_duckduckgo(outcomes[i].available, outcomes[i].response, t)

\* outcomes: for every query, whether the search is available and its results
fetch_realtime_search_results(enabled, outcomes, t) ==
    IF ~enabled THEN <<>> ELSE SearchFrom(outcomes, Len(outcomes), t)

SearchOutcomes(t) ==
    {[available |-> FALSE, response |-> <<>>]} \cup
    {[available |-> TRUE, response |-> r] : r \in Responses(SearchResults(t))}

-----------------------------------------------------------------------------
(* Deduplicator and filter *)

RECURSIVE DedupFrom(_, _, _, _)
DedupFrom(articles, i, seen_urls, seen_titles) ==
    IF i > Len(articles) THEN <<>>
    ELSE LET url == lower(articles[i].link)
             title_norm == strip_punctuation(lower(articles[i].title))
         IN  IF url \notin seen_urls /\ title_norm \notin seen_titles
             THEN <<articles[i]>> \o
                  DedupFrom(articles, i + 1, seen_urls \cup {url},
                            seen_titles \cup {title_norm})
             ELSE DedupFrom(articles, i + 1, seen_urls, seen_titles)

deduplicate_articles(articles) == DedupFrom(articles, 1, {}, {})

filter_articles(articles) ==
    SelectSeq(articles, LAMBDA a :
        /\ ~(len(lower(a.title)) < min_title_length)
        /\ a.keywords \cap exclude_keywords = {})

-----------------------------------------------------------------------------
(* Relevance scorer.  Scores are multiplied by 1200 to stay integers:      *)
(* 10 - hours_ago / 2.4 becomes 12000 - 500 * hours_ago.                   *)

\* points = article.get('points', 0) or article.get('score', 0)
Truthy(v) == v.tag = "int" /\ v.n # 0
EngagementOf(article) ==
    LET points == Get(article.points, Int_(0))
    IN  IF Truthy(points) THEN points ELSE Get(article.score, Int_(0))

\* "if points > 0" raises TypeError when points is None
ScoreRaises(article) == EngagementOf(article).tag # "int"

calculate_score(article, t) ==
    LET pub_date == fromisoformat(article.published)
        \* now - pub_date raises for an aware pub_date: "Default middle score"
        recency == IF pub_date.aware THEN 5 * 1200
                   ELSE Max(0, 12000 - 500 * (t - pub_date.t))
        weight == Get(article.source_weight, Int_(5)).n * 1200
        points == EngagementOf(article).n
        engagement == IF points > 0 THEN Min(5 * 1200, 12 * points) ELSE 0
        academic == IF article.source_type \in {"arxiv_api", "academic"}
                    THEN 2 * 1200 ELSE 0
    IN  recency + weight + engagement + academic

\* an article put in front of the articles of its score
RECURSIVE InsertBeforeTies(_, _, _)
InsertBeforeTies(sorted, a, t) ==
    IF sorted = <<>> THEN <<a>>
    ELSE IF calculate_score(Head(sorted), t) > calculate_score(a, t)
         THEN <<Head(sorted)>> \o InsertBeforeTies(Tail(sorted), a, t)
         ELSE <<a>> \o sorted

\* sorted(..., reverse=True) is stable: an article goes behind the articles
\* that score at least as much
RECURSIVE InsertByScore(_, _, _)
InsertByScore(sorted, a, t) ==
    IF sorted = <<>> THEN <<a>>
    ELSE IF calculate_score(Head(sorted), t) >= calculate_score(a, t)
         THEN <<Head(sorted)>> \o InsertByScore(Tail(sorted), a, t)
         ELSE <<a>> \o sorted

RECURSIVE SortFrom(_, _, _)
SortFrom(articles, i, t) ==
    IF i = 0 THEN <<>>
    ELSE InsertByScore(SortFrom(articles, i - 1, t), articles[i], t)

sort_articles_by_relevance(articles, t) == SortFrom(articles, Len(articles), t)

SortRaises(articles) == \E i \in 1..Len(articles) : ScoreRaises(articles[i])

-----------------------------------------------------------------------------
(* The aggregation call fetch_recent_articles *)

-----------------------------------------------------------------------------
(* dynamic_sources.py: the values of the source manager.  Scores are in     *)
(* hundredths: freshness is counted in thirtieths and relevance in fifths,  *)
(* so that quality = 0.6 * freshness + 0.4 * relevance becomes              *)
(* 2 * freshness + 8 * relevance.                                           *)

\* SOURCE_REFRESH_HOURS, in the time unit of the model
refresh_hours == 1
\* the seeds whose feed changes, and the sources a discovery can find
MaxWatched == 1
MaxDiscovered == 1

\* MIN_SOURCE_SCORE = 0.6
min_source_score == 60
\* MAX_SOURCES_PER_CATEGORY
max_sources_per_category == 15
\* freshness decays over 30 days; an undated feed scores 0.5
freshness_days == 30
undated_freshness == 15
\* ai_relevance = min(1.0, ai_score / 5)
relevance_cap == 5
\* the quality_score given to a seed and to a Google News source
seed_score == 80
dynamic_score == 70
\* len(SEED_SOURCES)
NumSeeds == 20
\* the limits of get_sources_for_profile
quick_limit == 5
balanced_limit == 15
other_limit == 10
\* max_new of the discovery made by get_dynamic_sources
refresh_max_new == 10

Seeds == 1..NumSeeds
Watched == 1..MaxWatched
\* the ids of the sources read in the Google News feeds
Discoverable == {100 + i : i \in 1..MaxDiscovered}

\* the condition of a feed: what a request for it meets
Feed(status, dated, age, keywords) ==
    [status |-> status, dated |-> dated, age |-> age, keywords |-> keywords]

\* a watched feed: unreachable, with a newest entry dated a day ahead of
\* the local clock, 45 days old, or undated with every keyword
FeedConds ==
    { Feed("unreachable", FALSE, 0, 0), Feed("ok", TRUE, -1, 7),
      Feed("ok", TRUE, 45, 5), Feed("ok", FALSE, 0, 6) }

\* the other seeds are alive
BaseCond(name) == Feed("ok", TRUE, (name % 3), 2 + (name % 5))

FeedOf(name) == IF name \in Watched THEN feeds[name] ELSE BaseCond(name)

\* an entry of self.sources, with its name
Entry(name, quality, type, validated, freshness, relevance, latest_update) ==
    [name |-> name, quality |-> quality, type |-> type, validated |-> validated,
     freshness |-> freshness, relevance |-> relevance, latest_update |-> latest_update]

SeedEntry(name) == Entry(name, seed_score, "seed", FALSE, 0, 0, Absent)
DynamicEntry(name) == Entry(name, dynamic_score, "google_news_dynamic", FALSE, 0, 0, Absent)

\* validate_rss_feed: None, or the metadata of the feed
NoMeta == [ok |-> FALSE, quality |-> 0, freshness |-> 0, relevance |-> 0,
           latest_update |-> Absent]

freshness_score(cond) ==
    IF cond.dated THEN Max(0, freshness_days - cond.age) ELSE undated_freshness

ai_relevance(cond) == Min(relevance_cap, cond.keywords)

validate_rss_feed(cond) ==
    IF cond.status # "ok" THEN NoMeta
    ELSE LET quality_score == 2 * freshness_score(cond) + 8 * ai_relevance(cond)
         IN  IF quality_score < min_source_score THEN NoMeta
             ELSE [ok |-> TRUE, quality |-> quality_score,
                   freshness |-> freshness_score(cond),
                   relevance |-> ai_relevance(cond),
                   latest_update |-> IF cond.dated THEN Int_(cond.age) ELSE None]

Names(srcs) == {srcs[i].name : i \in 1..Len(srcs)}

\* the file DYNAMIC_SOURCES_CACHE: absent, a JSON document or cut short
NoCatalog == [kind |-> "absent", cached_at |-> 0, sources |-> <<>>]
BrokenCatalog == [kind |-> "partial", cached_at |-> 0, sources |-> <<>>]

dump_sources(srcs) ==
    [i \in 1..Len(srcs) |-> [srcs[i] EXCEPT !.latest_update = json_value(@)]]
load_sources(srcs) ==
    [i \in 1..Len(srcs) |-> [srcs[i] EXCEPT !.latest_update = py_value(@)]]

SeedCatalog == [i \in Seeds |-> SeedEntry(i)]

\* the cached catalog reloaded through the last hour of the interval
load_through_interval(file, t) ==
    IF file.kind = "json" /\ t - file.cached_at <= refresh_hours
    THEN [sources |-> load_sources(file.sources), reloaded |-> TRUE]
    ELSE [sources |-> SeedCatalog, reloaded |-> FALSE]

\* load_cached_sources: self.sources, and whether it came from the file
load_cached_sources(file, t) ==
    IF file.kind = "json" /\ t - file.cached_at < refresh_hours
    THEN [sources |-> load_sources(file.sources), reloaded |-> TRUE]
    ELSE [sources |-> SeedCatalog, reloaded |-> FALSE]

\* save_sources_cache: the file after it
save_sources_cache(file, srcs, write, t) ==
    CASE write = "ok" -> [kind |-> "json", cached_at |-> t, sources |-> dump_sources(srcs)]
      [] write = "open_fails" -> file
      [] write = "dump_fails" -> BrokenCatalog

\* cache_age_hours of get_dynamic_sources
cache_age_hours(file, t) == IF file.kind = "json" THEN t - file.cached_at ELSE 0

\* no manager yet, no call running
NoManager == [pc |-> "idle", started |-> FALSE, sources |-> <<>>, force |-> FALSE]
NoLog == [start |-> "none", discovered |-> FALSE,
          refreshed |-> FALSE, before |-> <<>>,
          write |-> "ok", returned |-> FALSE, profile |-> "", out |-> <<>>]

ManagerIdle ==
    /\ feeds = [i \in Watched |-> Feed("unreachable", FALSE, 0, 0)]
    /\ dyn_cache = NoCatalog
    /\ mgr = NoManager
    /\ mlog = NoLog

\* extract_article_text has not been called
NoExtract == [pc |-> "idle", imported |-> FALSE, outcome |-> "",
              page |-> [visible |-> 0, scripts |-> 0], text |-> 0, raised |-> FALSE]

\* the processes that run an aggregation call on the same cache directory
NumWriters == 2
Writers == 1..NumWriters

\* a process that is not inside save_to_cache
NotWriting == [pc |-> "idle", off |-> 0, n |-> 0]

\* the cache file is absent, no process writes it, nothing has been read
NoRace == [file |-> <<>>, exists |-> FALSE, writers |-> [w \in Writers |-> NotWriting],
           got |-> Miss, read |-> FALSE]

\* no strategy has been called
NoStrategy == [pc |-> "idle", type |-> "", entries |-> <<>>, out |-> <<>>]

\* discover_new_sources has not been called
NoDiscovery == [pc |-> "idle", before |-> <<>>, max_new |-> 0, added |-> 0, write |-> "ok"]

\* the items of CUSTOM_NEWS_SOURCES: at most MaxCustom, a url or blank (0)
MaxCustom == 2
NumCustomUrls == 2
CustomKeys == 0..(MaxCustom - 1)
\* no key custom_<idx> in a dict of PROFILE_MAP
NoCustom == [i \in CustomKeys |-> 0]
\* PROFILE_MAP as the module is imported, no call yet
StaticCatalog ==
    [pc |-> "idle", custom |-> [p \in ProfileNames |-> NoCustom], key |-> "",
     env |-> <<>>, out |-> [static |-> <<>>, custom |-> NoCustom]]

\* the scheduler has not fired
NoTrigger == [pc |-> "idle", retry |-> FALSE, notify |-> FALSE, retry_count |-> 0,
              runs |-> <<>>, notified |-> FALSE, returned |-> "none"]

LaterIdle ==
    /\ race = NoRace
    /\ strat = NoStrategy
    /\ disc = NoDiscovery
    /\ catalog = StaticCatalog
    /\ trig = NoTrigger

\* no call of search_duckduckgo is running
NoSearch == [pc |-> "idle", retries |-> 0, attempt |-> 0, slept |-> <<>>,
             log |-> <<>>, articles |-> <<>>]

NoPut == [done |-> FALSE, at |-> 0, write |-> "ok", articles |-> <<>>, raised |-> FALSE]
NoGet == [key |-> "", at |-> 0, read_ok |-> TRUE, file |-> NoFile, got |-> Miss,
          put |-> NoPut, fresh |-> <<>>, returned |-> <<>>, raised |-> FALSE,
          saved |-> FALSE, write |-> "ok", save_raised |-> FALSE,
          invoked |-> FALSE, reachable |-> FALSE]

\* the cache files an earlier run of the program can have left at hour 0:
\* none, or the file of one source, written or cut short
EarlierFiles(key) ==
    {Partial} \cup
    {save_to_cache(TRUE, NoFile, Strategy(key, TRUE, r, 0), "ok", 0).file :
        r \in {q \in ProviderResponses(key, 0) :
                  Len(q) = 1 /\ Strategy(key, TRUE, q, 0) # <<>>}}

InitialCaches ==
    {[k \in CacheKeys |-> NoFile]} \cup
    UNION {{[k \in CacheKeys |-> IF k = key THEN f ELSE NoFile] :
               f \in EarlierFiles(key)} : key \in CacheKeys}

Init ==
    /\ env \in Environments
    /\ now = 0
    /\ cache \in InitialCaches
    /\ pc = "idle"
    /\ profile = ""
    /\ sources = <<>>
    /\ max_articles = 0
    /\ idx = 0
    /\ all_articles = <<>>
    /\ visited = <<>>
    /\ pool = <<>>
    /\ scoredAt = 0
    /\ result = <<>>
    /\ lastPut = [k \in CacheKeys |-> NoPut]
    /\ lastGet = NoGet
    /\ ddg = NoSearch
    /\ ManagerIdle
    /\ ext = NoExtract
    /\ LaterIdle

\* time passes
Tick ==
    /\ pc = "idle"
    /\ now < MaxTime
    /\ now' = now + 1
    /\ UNCHANGED <<auxVars, env, cache, callVars, lastPut, lastGet>>

\* lines 544-549: the call starts and resolves the profile
Call ==
    /\ pc = "idle"
    /\ \E p \in CallerProfiles, e \in FeedProfiles :
          /\ profile' = p
          /\ sources' = get_sources_by_profile(p, e)
    /\ pc' = "sources"
    /\ idx' = 0
    /\ all_articles' = <<>>
    /\ visited' = <<>>
    /\ UNCHANGED <<auxVars, env, now, cache, max_articles, pool, scoredAt, result,
                   lastPut, lastGet>>

\* article['source_weight'] = source_config.get('weight', 5)
WithWeight(articles, weight) ==
    MapSeq(articles, LAMBDA a : [a EXCEPT !.source_weight = Int_(weight)])

\* the loop left at the first source that returned articles
next_source_until_found(i, articles) ==
    IF articles = <<>> THEN i + 1 ELSE Len(sources)

\* the for loop goes to the next source whatever the source returned
next_source(i, articles) == i + 1

\* lines 552-562: one round of the loop over the sources (the cache file is
\* not read again by this call: failing writes are explored by SpecCache)
FetchSource ==
    /\ pc = "sources"
    /\ idx < Len(sources)
    /\ LET name == sources[idx + 1]
           key == get_cache_key(name)
       IN  \E o \in ProviderOutcomes(name, now), read_ok \in BOOLEAN :
           \E r \in {fetch_from_source(env.caching, cache[key], name,
                                       o.reachable, o.response, read_ok, "ok", now)} :
              LET articles == IF r.raised THEN <<>>
                              ELSE WithWeight(r.articles, SourceConfig(name).weight)
              IN  /\ cache' = [cache EXCEPT ![key] = r.file]
                  /\ all_articles' = all_articles \o articles
                  /\ visited' = Append(visited, [stage |-> name, n |-> Len(articles)])
                  /\ idx' = next_source(idx, articles)
    /\ UNCHANGED <<auxVars, env, now, pc, profile, sources, max_articles, pool, scoredAt,
                   result, lastPut, lastGet>>

\* lines 565-569: the real-time search, after the last source
Search ==
    /\ pc = "sources"
    /\ idx = Len(sources)
    /\ env.realtime_search
    /\ \E outcomes \in [SearchQueries -> SearchOutcomes(now)] :
          LET articles == fetch_realtime_search_results(TRUE, outcomes, now)
          IN  /\ all_articles' = all_articles \o articles
              /\ visited' = Append(visited, [stage |-> "realtime_search",
                                             n |-> Len(articles)])
    /\ pc' = "process"
    /\ UNCHANGED <<auxVars, env, now, cache, profile, sources, max_articles, idx, pool,
                   scoredAt, result, lastPut, lastGet>>

\* lines 573-587: deduplicate, filter, sort, cut to max_articles and return;
\* max_articles is read here for the first time
Limits == -1..MaxLimit

Process ==
    /\ \/ pc = "process"
       \/ pc = "sources" /\ idx = Len(sources) /\ ~env.realtime_search
    /\ LET filtered == filter_articles(deduplicate_articles(all_articles))
       IN  /\ pool' = filtered
           /\ scoredAt' = now
           /\ \E m \in Limits :
                 /\ max_articles' = m
                 /\ IF SortRaises(filtered)
                    THEN /\ pc' = "raised"
                         /\ result' = <<>>
                    ELSE /\ pc' = "done"
                         /\ result' = Slice(sort_articles_by_relevance(filtered, now), m)
    /\ UNCHANGED <<auxVars, env, now, cache, profile, sources, idx, all_articles, visited,
                   lastPut, lastGet>>

Next == Tick \/ Call \/ FetchSource \/ Search \/ Process

Spec == Init /\ [][Next]_vars

-----------------------------------------------------------------------------
(* The cache store over time: fetch_from_source called again and again on  *)
(* the sources, with reads and writes that can fail.                       *)

\* the source whose cache file is followed
CachedSources == {"reddit_machinelearning"}

InitCache ==
    /\ env \in {e \in Environments : e.realtime_search}
    /\ now = 0
    /\ cache = [k \in CacheKeys |-> NoFile]
    /\ pc = "idle"
    /\ profile = ""
    /\ sources = <<>>
    /\ max_articles = 0
    /\ idx = 0
    /\ all_articles = <<>>
    /\ visited = <<>>
    /\ pool = <<>>
    /\ scoredAt = 0
    /\ result = <<>>
    /\ lastPut = [k \in CacheKeys |-> NoPut]
    /\ lastGet = NoGet
    /\ ddg = NoSearch
    /\ ManagerIdle
    /\ ext = NoExtract
    /\ LaterIdle

CacheTick ==
    /\ now < MaxTime
    /\ now' = now + 1
    /\ lastGet' = NoGet
    /\ UNCHANGED <<auxVars, env, cache, callVars, lastPut>>

\* one call of fetch_from_source
SourceFetch ==
    /\ \E name \in CachedSources :
       \E o \in ProviderOutcomes(name, now), read_ok \in BOOLEAN,
          write \in WriteOutcomes :
          LET key == get_cache_key(name)
          IN  \E r \in {fetch_from_source(env.caching, cache[key], name, o.reachable,
                                          o.response, read_ok, write, now)} :
              /\ cache' = [cache EXCEPT ![key] = r.file]
              /\ lastPut' = IF r.saved
                            THEN [lastPut EXCEPT ![key] =
                                    [done |-> TRUE, at |-> now, write |-> write,
                                     articles |-> r.articles,
                                     raised |-> r.save_raised]]
                            ELSE lastPut
              /\ lastGet' = [key |-> key, at |-> now, read_ok |-> read_ok,
                             file |-> cache[key], got |-> r.cached,
                             put |-> lastPut[key],
                             fresh |-> Strategy(name, o.reachable, o.response, now),
                             returned |-> r.articles, raised |-> r.raised,
                             saved |-> r.saved, write |-> write,
                             save_raised |-> r.save_raised,
                             invoked |-> r.invoked, reachable |-> o.reachable]
    /\ UNCHANGED <<auxVars, env, now, callVars>>

NextCache == CacheTick \/ SourceFetch

SpecCache == InitCache /\ [][NextCache]_vars

-----------------------------------------------------------------------------
(* Properties of the aggregation call, checked under Spec *)

ResultIdx == 1..Len(result)

\* every stage the call went through came back with nothing
AllStagesEmpty == \A i \in 1..Len(visited) : visited[i].n = 0

\* C1: fetch_recent_articles never raises to its caller, whatever the profile
\* and the outcomes of the sources, and when every source fails it returns
\* an empty list.
C1_NeverRaises ==
    /\ pc # "raised"
    /\ pc = "done" /\ AllStagesEmpty => result = <<>>

\* two urls are the same address, whatever their case
SameUrl(a, b) == a.dom = b.dom /\ a.path = b.path /\ a.query = b.query

\* C2: in the list an aggregation call returns, no two articles have the
\* same url, and no two articles without url have the same normalized title.
C2_UniqueIdentity ==
    pc = "done" =>
        \A i, j \in ResultIdx :
            i < j =>
                /\ result[i].link # NoUrl /\ result[j].link # NoUrl
                      => ~SameUrl(result[i].link, result[j].link)
                /\ result[i].link = NoUrl /\ result[j].link = NoUrl
                      => result[i].title.text # result[j].title.text

\* the call returned two articles or more after it had collected two
\* articles with the same url in different case
C2_Witness ==
    /\ pc = "done"
    /\ Len(result) >= 2
    /\ \E i, j \in 1..Len(all_articles) :
          /\ i < j
          /\ all_articles[i].link # NoUrl
          /\ all_articles[i].link # all_articles[j].link
          /\ SameUrl(all_articles[i].link, all_articles[j].link)

InResult(a) == \E i \in ResultIdx : result[i] = a

\* C3: for every limit max_articles >= 0 and every deduplicated and filtered
\* pool, the call returns exactly min(max_articles, size of the pool)
\* articles of the pool, no article left out scores more than a returned
\* one, and the returned articles are in descending order of score.
C3_TopByScore ==
    pc \in {"done", "raised"} /\ max_articles >= 0 =>
        /\ pc = "done"
        /\ Len(result) = Min(max_articles, Len(pool))
        /\ \A i \in ResultIdx : \E k \in 1..Len(pool) : pool[k] = result[i]
        /\ \A i, j \in ResultIdx :
              i < j => calculate_score(result[i], scoredAt)
                          >= calculate_score(result[j], scoredAt)
        /\ \A k \in 1..Len(pool) :
              ~InResult(pool[k]) =>
                  \A i \in ResultIdx : calculate_score(pool[k], scoredAt)
                                          <= calculate_score(result[i], scoredAt)

\* C4: every article an aggregation call returns was published inside the
\* lookback window at the time of the call, whatever strategy produced it
\* and whether it was fetched or read from the cache.
C4_WithinLookback ==
    pc = "done" =>
        \A i \in ResultIdx :
            WithinLookback(fromisoformat(result[i].published), scoredAt)

Domains == {result[i].link.dom : i \in ResultIdx} \ {""}

\* C5: in the result of an aggregation call at most max_per_domain articles
\* have their url on the same domain.
C5_PerDomainCap ==
    pc = "done" =>
        \A d \in Domains :
            Cardinality({i \in ResultIdx : result[i].link.dom = d}) <= max_per_domain

-----------------------------------------------------------------------------
(* Properties of the cache store, checked under SpecCache.  lastGet is the   *)
(* call of fetch_from_source that led to the state: the file it found, what *)
(* load_from_cache returned (got) and the latest save_to_cache on the key   *)
(* before it (put).                                                         *)

GetDone == lastGet.key # ""

\* the get follows a put on its key by less than the ttl
GetWithinTtl ==
    /\ GetDone
    /\ lastGet.put.done
    /\ lastGet.at - lastGet.put.at < ttl_seconds

FileAge == lastGet.at - fromisoformat(lastGet.file.timestamp).t

\* C6 as stated: after put(K, articles), a get(K) before the ttl has elapsed,
\* with no other put to K in between, returns exactly those articles, in
\* the same order and with unmodified fields.
C6_RoundTrip ==
    GetWithinTtl =>
        /\ lastGet.got.hit
        /\ lastGet.got.articles = lastGet.put.articles

\* C6 amended: with caching enabled, after a put(K, articles) whose write
\* succeeded, a get(K) before the ttl has elapsed, with no other put to K in
\* between, whose read succeeds returns exactly those articles, in the same
\* order and with unmodified fields.
C6_RoundTripWritten ==
    GetWithinTtl /\ env.caching /\ lastGet.put.write = "ok" /\ lastGet.read_ok =>
        /\ lastGet.got.hit
        /\ lastGet.got.articles = lastGet.put.articles

\* a get returned the two articles, one with a null score, of a put of the
\* hour before
C6_Witness ==
    /\ GetWithinTtl /\ env.caching /\ lastGet.put.write = "ok" /\ lastGet.read_ok
    /\ lastGet.at > lastGet.put.at
    /\ Len(lastGet.put.articles) = 2
    /\ \E i \in 1..2 : lastGet.put.articles[i].score = None
    /\ lastGet.got.articles = lastGet.put.articles

\* C7: an entry is valid exactly while now - write_timestamp < ttl; a get
\* once the ttl has elapsed is a miss and never returns the stale articles,
\* and the expired entry stays in the store when nothing is written over it.
C7_Expiry ==
    GetDone /\ env.caching /\ lastGet.file.kind = "json" =>
        /\ lastGet.read_ok => (lastGet.got.hit <=> FileAge < ttl_seconds)
        /\ FileAge >= ttl_seconds =>
              /\ ~lastGet.got.hit
              /\ lastGet.got.articles = <<>>
              /\ ~lastGet.saved => /\ cache[lastGet.key] = lastGet.file
                                   /\ lastGet.returned = <<>>

\* a get found an entry exactly ttl old, missed, and the entry is still there
C7_Witness ==
    /\ GetDone /\ env.caching /\ lastGet.file.kind = "json" /\ lastGet.read_ok
    /\ FileAge = ttl_seconds
    /\ ~lastGet.got.hit
    /\ ~lastGet.saved
    /\ cache[lastGet.key] = lastGet.file
    /\ cache[lastGet.key].articles # <<>>

\* the get met an unreadable or cut-short entry
GetFailed ==
    /\ env.caching
    /\ lastGet.file.kind # "absent"
    /\ ~lastGet.read_ok \/ lastGet.file.kind = "partial"

\* the put of this fetch could not write
PutFailed == env.caching /\ lastGet.saved /\ lastGet.write # "ok"

\* C8: no cache I/O failure is surfaced: a get on an unreadable or corrupted
\* entry is a miss and does not raise, a put that fails to write does not
\* raise, and the fetch returns what it returns without a cache.
C8_NoCacheFailureSurfaced ==
    GetDone =>
        /\ ~lastGet.got.raised
        /\ ~lastGet.raised
        /\ GetFailed => ~lastGet.got.hit
        /\ PutFailed => ~lastGet.save_raised
        /\ GetFailed \/ PutFailed => lastGet.returned = lastGet.fresh

\* a fetch met a cut-short entry, fetched articles and failed to write them
C8_Witness ==
    /\ GetDone
    /\ GetFailed /\ lastGet.file.kind = "partial"
    /\ PutFailed
    /\ lastGet.returned # <<>>
    /\ lastGet.returned = lastGet.fresh

-----------------------------------------------------------------------------
(* The stages of an aggregation call, checked under Spec *)

\* the stages of a call in order: the sources of the profile, then the
\* real-time search when it is enabled
StageList ==
    sources \o (IF env.realtime_search THEN <<"realtime_search">> ELSE <<>>)

Returning == pc \in {"done", "raised"}

StageOf(a) ==
    CASE a.source_type = "arxiv_api" -> "arxiv"
      [] a.source_type = "reddit_api" -> "reddit_machinelearning"
      [] a.source_type = "realtime_search" -> "realtime_search"
      [] OTHER -> a.source

PrimaryEmpty == pc = "done" /\ visited # <<>> /\ visited[1].n = 0

\* the first stage that returned articles
Serving(i) ==
    /\ i \in 1..Len(visited)
    /\ visited[i].n > 0
    /\ \A k \in 1..(i - 1) : visited[k].n = 0

-----------------------------------------------------------------------------
(* search_duckduckgo step by step: the attempts of one call, the waits      *)
(* between them and what each attempt met.  Waits are in hundredths of a    *)
(* second.                                                                  *)

\* the default of the parameter retries
default_retries == 3
\* the default of the parameter backoff_base, 1.5, as a fraction
backoff_num == 3
backoff_den == 2

RECURSIVE Pow(_, _)
Pow(b, e) == IF e = 0 THEN 1 ELSE b * Pow(b, e - 1)

\* round(n / d, 2) in hundredths: to the nearest, a tie to the even digit
Round2(n, d) ==
    LET q == (100 * n) \div d
        r == (100 * n) % d
    IN  IF 2 * r > d \/ (2 * r = d /\ q % 2 = 1) THEN q + 1 ELSE q

\* the same wait before every retry
sleep_base(attempt) == Round2(backoff_num, backoff_den)

\* sleep_seconds = round(backoff_base ** (attempt - 1), 2)
sleep_seconds(attempt) ==
    Round2(Pow(backoff_num, attempt - 1), Pow(backoff_den, attempt - 1))

\* what an attempt meets: results, a rate-limit error, or another error
AttemptOutcomes(t) ==
    {[kind |-> "results", response |-> r] : r \in Responses(SearchResults(t))} \cup
    {[kind |-> "ratelimit", response |-> <<>>], [kind |-> "error", response |-> <<>>]}

InitSearch ==
    /\ env \in {e \in Environments : e.caching /\ e.realtime_search}
    /\ now = 0
    /\ cache = [k \in CacheKeys |-> NoFile]
    /\ pc = "idle"
    /\ profile = ""
    /\ sources = <<>>
    /\ max_articles = 0
    /\ idx = 0
    /\ all_articles = <<>>
    /\ visited = <<>>
    /\ pool = <<>>
    /\ scoredAt = 0
    /\ result = <<>>
    /\ lastPut = [k \in CacheKeys |-> NoPut]
    /\ lastGet = NoGet
    /\ ddg = NoSearch
    /\ ManagerIdle
    /\ ext = NoExtract
    /\ LaterIdle

SearchTick ==
    /\ ddg.pc = "idle"
    /\ now < MaxTime
    /\ now' = now + 1
    /\ UNCHANGED <<coreVars, ddg, mgrVars, ext, laterVars>>

\* lines 316-349: the call; imported = FALSE: neither package is installed
SearchCall ==
    /\ ddg.pc = "idle"
    /\ \E imported \in BOOLEAN, r \in 0..default_retries :
          ddg' = [NoSearch EXCEPT !.retries = r,
                                  !.pc = IF imported THEN "loop" ELSE "returned"]
    /\ UNCHANGED <<coreVars, now, mgrVars, ext, laterVars>>

\* lines 350-395: one round of the while loop
SearchAttempt ==
    /\ ddg.pc = "loop"
    /\ ddg.attempt <= ddg.retries
    /\ \E o \in AttemptOutcomes(now) :
          LET attempt == ddg.attempt + 1
              logged == [ddg EXCEPT !.attempt = attempt, !.log = Append(@, o.kind)]
          IN  ddg' =
                 CASE o.kind = "results" ->
                         [logged EXCEPT !.pc = "returned",
                                        !.articles = search_duckduckgo(TRUE, o.response, now)]
                   [] o.kind = "ratelimit" /\ attempt <= ddg.retries ->
                         [logged EXCEPT !.slept = Append(@, sleep_seconds(attempt))]
                   [] OTHER -> [logged EXCEPT !.pc = "returned"]
    /\ UNCHANGED <<coreVars, now, mgrVars, ext, laterVars>>

NextSearch == SearchTick \/ SearchCall \/ SearchAttempt

SpecSearch == InitSearch /\ [][NextSearch]_vars

\* C11: while the provider keeps signalling rate limiting the search is
\* retried at most retries times, the wait before each retry is strictly
\* longer than the one before it (backoff_base to the power of the number
\* of retries already made), after the last retry no further attempt is
\* made, and an error that is no rate-limit signal causes no retry.
C11_Backoff ==
    /\ Len(ddg.slept) <= ddg.retries
    /\ ddg.attempt <= ddg.retries + 1
    /\ Len(ddg.log) = ddg.attempt
    /\ \A i \in 1..Len(ddg.slept) :
          /\ ddg.slept[i] = Round2(Pow(backoff_num, i - 1), Pow(backoff_den, i - 1))
          /\ i > 1 => ddg.slept[i] > ddg.slept[i - 1]
    /\ ddg.attempt = ddg.retries + 1 => ddg.pc = "returned"
    /\ \A i \in 1..Len(ddg.log) :
          /\ i < Len(ddg.log) => ddg.log[i] = "ratelimit"
          /\ ddg.log[i] # "ratelimit" => ddg.pc = "returned"
    /\ Len(ddg.slept) = Cardinality({i \in 1..Len(ddg.log) :
                                        ddg.log[i] = "ratelimit" /\ i <= ddg.retries})

\* the search was rate limited on every attempt, waited three times and gave up
C11_Witness ==
    /\ ddg.pc = "returned"
    /\ ddg.retries = default_retries
    /\ Len(ddg.slept) = default_retries
    /\ ddg.log[Len(ddg.log)] = "ratelimit"
    /\ ddg.slept[1] < ddg.slept[2] /\ ddg.slept[2] < ddg.slept[3]

-----------------------------------------------------------------------------
(* Endpoints that never respond.  The API strategies call requests.get with *)
(* timeout=15: the request raises and the strategy returns [] (the outcome  *)
(* reachable = FALSE of FetchSource).  parse_rss_feed hands the url to      *)
(* feedparser.parse, which sets no time limit.                              *)

InitTimeout ==
    /\ Init
    /\ cache = [k \in CacheKeys |-> NoFile]

\* line 99: feedparser.parse(url) on a feed that never answers
FetchBlocks ==
    /\ pc = "sources"
    /\ idx < Len(sources)
    /\ SourceConfig(sources[idx + 1]).type = "rss"
    /\ load_from_cache(env.caching, cache[get_cache_key(sources[idx + 1])], TRUE, now)
          \in {Miss, Hit(<<>>)}
    /\ pc' = "blocked"
    /\ UNCHANGED <<auxVars, env, now, cache, profile, sources, max_articles, idx,
                   all_articles, visited, pool, scoredAt, result, lastPut, lastGet>>

NextTimeout == Call \/ FetchSource \/ FetchBlocks \/ Search \/ Process

SpecTimeout == InitTimeout /\ [][NextTimeout]_vars

\* C12: every fetch carries a time limit: an aggregation call never waits
\* without end on a source endpoint that does not respond (it goes on to
\* the other sources and returns their articles).
C12_NoFetchBlocks == pc # "blocked"

-----------------------------------------------------------------------------
(* dynamic_sources.py: DynamicSourceManager and get_dynamic_sources.        *)

\* self.sources[name] = metadata: the entry carries no 'type'
MetaEntry(name, meta) ==
    Entry(name, meta.quality, "", TRUE, meta.freshness, meta.relevance,
          meta.latest_update)

\* Method 1: the seeds that are not in the catalog and validate
RECURSIVE DiscoverSeeds(_, _)
DiscoverSeeds(i, srcs) ==
    IF i > NumSeeds THEN <<>>
    ELSE (IF i \notin Names(srcs) /\ validate_rss_feed(FeedOf(i)).ok
          THEN <<MetaEntry(i, validate_rss_feed(FeedOf(i)))>> ELSE <<>>)
         \o DiscoverSeeds(i + 1, srcs)

\* Method 2: the sources named by the entries of the Google News feeds,
\* put into the catalog as they are read
RECURSIVE DiscoverNews(_, _, _)
DiscoverNews(i, found, srcs) ==
    IF i > MaxDiscovered THEN <<>>
    ELSE (IF (100 + i) \in found /\ (100 + i) \notin Names(srcs)
          THEN <<DynamicEntry(100 + i)>> ELSE <<>>)
         \o DiscoverNews(i + 1, found, srcs)

\* the discovered entries that are not in the catalog yet
RECURSIVE AddNew(_, _)
AddNew(discovered, srcs) ==
    IF discovered = <<>> THEN <<>>
    ELSE IF Head(discovered).name \in Names(srcs)
         THEN AddNew(Tail(discovered), srcs)
         ELSE <<Head(discovered)>> \o AddNew(Tail(discovered), srcs \o <<Head(discovered)>>)

\* discover_new_sources: the catalog after it, and the count it returns
discover_new_sources(srcs, found, max_new) ==
    LET seeds  == DiscoverSeeds(1, srcs)
        news   == DiscoverNews(1, found, srcs)
        withNews == srcs \o news
        added  == AddNew(Slice(seeds \o news, max_new), withNews)
    IN  [sources |-> withNews \o added, added |-> Len(added)]

\* the entry after self.sources[name].update(metadata)
Updated(e, meta) ==
    [e EXCEPT !.quality = meta.quality, !.validated = TRUE,
              !.freshness = meta.freshness, !.relevance = meta.relevance,
              !.latest_update = meta.latest_update]

\* a refresh that keeps the sources whose validation failed
RECURSIVE refresh_keeping_dead(_)
refresh_keeping_dead(srcs) ==
    IF srcs = <<>> THEN <<>>
    ELSE (IF Head(srcs).type = "google_news_dynamic" THEN <<Head(srcs)>>
          ELSE IF validate_rss_feed(FeedOf(Head(srcs).name)).ok
               THEN <<Updated(Head(srcs), validate_rss_feed(FeedOf(Head(srcs).name)))>>
               ELSE <<Head(srcs)>>)
         \o refresh_keeping_dead(Tail(srcs))

\* refresh_source_scores: the catalog after the loop
RECURSIVE refresh_source_scores(_)
refresh_source_scores(srcs) ==
    IF srcs = <<>> THEN <<>>
    ELSE (IF Head(srcs).type = "google_news_dynamic" THEN <<Head(srcs)>>
          ELSE IF validate_rss_feed(FeedOf(Head(srcs).name)).ok
               THEN <<Updated(Head(srcs), validate_rss_feed(FeedOf(Head(srcs).name)))>>
               ELSE <<>>)
         \o refresh_source_scores(Tail(srcs))

\* sorted(..., key=quality_score, reverse=True): stable
RECURSIVE InsertByQuality(_, _)
InsertByQuality(sorted, e) ==
    IF sorted = <<>> THEN <<e>>
    ELSE IF Head(sorted).quality >= e.quality
         THEN <<Head(sorted)>> \o InsertByQuality(Tail(sorted), e)
         ELSE <<e>> \o sorted

RECURSIVE SortByQuality(_, _)
SortByQuality(srcs, i) ==
    IF i = 0 THEN <<>> ELSE InsertByQuality(SortByQuality(srcs, i - 1), srcs[i])

\* an element of the list returned by get_top_sources
TopSource(e) ==
    [name |-> e.name, weight |-> e.quality \div 10, quality |-> e.quality,
     category |-> IF e.type = "" THEN "dynamic" ELSE e.type]

\* the first sources of the catalog, whatever their score
first_sources(srcs, limit) ==
    LET top == Slice(srcs, limit)
    IN  [i \in 1..Len(top) |-> TopSource(top[i])]

get_top_sources(srcs, limit) ==
    LET top == Slice(SortByQuality(srcs, Len(srcs)), limit)
    IN  [i \in 1..Len(top) |-> TopSource(top[i])]

SourceProfiles == {"quick", "balanced", "comprehensive", "custom"}

get_sources_for_profile(srcs, prof) ==
    CASE prof = "comprehensive" -> get_top_sources(srcs, max_sources_per_category)
      [] prof = "balanced" -> get_top_sources(srcs, balanced_limit)
      [] prof = "quick" -> get_top_sources(srcs, quick_limit)
      [] OTHER -> get_top_sources(srcs, other_limit)

InitSources ==
    /\ env = CHOOSE e \in Environments : e.caching /\ e.realtime_search
    /\ now = 0
    /\ cache = [k \in CacheKeys |-> NoFile]
    /\ pc = "idle"
    /\ profile = ""
    /\ sources = <<>>
    /\ max_articles = 0
    /\ idx = 0
    /\ all_articles = <<>>
    /\ visited = <<>>
    /\ pool = <<>>
    /\ scoredAt = 0
    /\ result = <<>>
    /\ lastPut = [k \in CacheKeys |-> NoPut]
    /\ lastGet = NoGet
    /\ ddg = NoSearch
    /\ feeds \in [Watched -> FeedConds]
    /\ dyn_cache = NoCatalog
    /\ mgr = NoManager
    /\ mlog = NoLog
    /\ ext = NoExtract
    /\ LaterIdle

MgrTick ==
    /\ mgr.pc = "idle"
    /\ now < MaxTime
    /\ now' = now + 1
    /\ mlog' = NoLog
    /\ UNCHANGED <<coreVars, ddg, ext, laterVars, feeds, dyn_cache, mgr>>

\* a feed changes
FeedChange ==
    /\ mgr.pc = "idle"
    /\ \E w \in [Watched -> FeedConds] : w # feeds /\ feeds' = w
    /\ mlog' = NoLog
    /\ UNCHANGED <<coreVars, ddg, ext, laterVars, now, dyn_cache, mgr>>

\* the process ends and another one starts: _manager is None again
MgrRestart ==
    /\ mgr.pc = "idle"
    /\ mgr.started
    /\ mgr' = NoManager
    /\ mlog' = NoLog
    /\ UNCHANGED <<coreVars, ddg, ext, laterVars, now, feeds, dyn_cache>>

\* get_dynamic_sources, lines 345-358: the manager and the age of the cache
MgrCall ==
    /\ mgr.pc = "idle"
    /\ \E force_refresh \in BOOLEAN :
       \E l \in {IF mgr.started THEN [sources |-> mgr.sources, reloaded |-> FALSE]
                 ELSE load_cached_sources(dyn_cache, now)} :
          /\ mgr' = [pc |-> IF force_refresh \/ cache_age_hours(dyn_cache, now) > refresh_hours
                            THEN "discover" ELSE "return",
                     started |-> TRUE, sources |-> l.sources, force |-> force_refresh]
          /\ mlog' = [NoLog EXCEPT
                        !.start = IF mgr.started THEN "none"
                                  ELSE IF l.reloaded THEN "reloaded" ELSE "bootstrapped"]
    /\ UNCHANGED <<coreVars, ddg, ext, laterVars, now, feeds, dyn_cache>>

\* line 363: _manager.discover_new_sources(max_new=10)
MgrDiscover ==
    /\ mgr.pc = "discover"
    /\ \E found \in SUBSET Discoverable, write \in WriteOutcomes :
       \E d \in {discover_new_sources(mgr.sources, found, refresh_max_new)} :
          /\ mgr' = [mgr EXCEPT !.pc = "refresh", !.sources = d.sources]
          /\ dyn_cache' = IF d.added > 0
                          THEN save_sources_cache(dyn_cache, d.sources, write, now)
                          ELSE dyn_cache
          /\ mlog' = [mlog EXCEPT !.discovered = TRUE]
    /\ UNCHANGED <<coreVars, ddg, ext, laterVars, now, feeds>>

\* line 364: _manager.refresh_source_scores()
MgrRefresh ==
    /\ mgr.pc = "refresh"
    /\ \E write \in WriteOutcomes :
       \E r \in {refresh_source_scores(mgr.sources)} :
          /\ mgr' = [mgr EXCEPT !.pc = "return", !.sources = r]
          /\ dyn_cache' = save_sources_cache(dyn_cache, r, write, now)
          /\ mlog' = [mlog EXCEPT
                        !.refreshed = TRUE,
                        !.before = mgr.sources,
                        !.write = write]
    /\ UNCHANGED <<coreVars, ddg, ext, laterVars, now, feeds>>

\* line 366: return _manager.get_sources_for_profile(profile)
MgrReturn ==
    /\ mgr.pc = "return"
    /\ \E prof \in SourceProfiles :
          mlog' = [mlog EXCEPT !.returned = TRUE, !.profile = prof,
                               !.out = get_sources_for_profile(mgr.sources, prof)]
    /\ mgr' = [mgr EXCEPT !.pc = "idle"]
    /\ UNCHANGED <<coreVars, ddg, ext, laterVars, now, feeds, dyn_cache>>

NextSources ==
    MgrTick \/ FeedChange \/ MgrRestart \/ MgrCall \/ MgrDiscover \/ MgrRefresh \/ MgrReturn

SpecSources == InitSources /\ [][NextSources]_vars

\* the entries of a catalog, and the entry of a name
Entries(srcs) == {srcs[i] : i \in 1..Len(srcs)}
Returned == {mlog.out[i] : i \in 1..Len(mlog.out)}

\* C13: no source whose quality_score is below the configured minimum is in
\* the source set returned for a profile, after any sequence of bootstrap,
\* discovery and refresh; a feed whose newest entry is 45 days old
\* (freshness_score 0) is in no profile's source set.
C13_NoWeakSource ==
    mlog.returned =>
        \A o \in Returned :
            /\ o.quality >= min_source_score
            /\ ~(FeedOf(o.name).status = "ok" /\ FeedOf(o.name).dated
                 /\ freshness_score(FeedOf(o.name)) = 0)

\* C14: the freshness_score, ai_relevance and quality_score that
\* validate_rss_feed gives and refresh_source_scores stores lie between 0 and
\* 1, whatever the timestamp of the newest entry of the feed.
C14_ScoresInRange ==
    \A e \in Entries(mgr.sources) :
        e.validated =>
            /\ 0 <= e.freshness /\ e.freshness <= freshness_days
            /\ 0 <= e.relevance /\ e.relevance <= relevance_cap
            /\ 0 <= e.quality /\ e.quality <= 100

\* the sources of a profile are the first ones by quality_score
TopOfCatalog(limit) ==
    /\ Len(mlog.out) = Min(limit, Len(mgr.sources))
    /\ Cardinality({o.name : o \in Returned}) = Len(mlog.out)
    /\ \A o \in Returned :
          \E e \in Entries(mgr.sources) : e.name = o.name /\ e.quality = o.quality
    /\ \A e \in Entries(mgr.sources) :
          e.name \notin {o.name : o \in Returned} =>
              \A o \in Returned : o.quality >= e.quality
    /\ \A i, j \in 1..Len(mlog.out) : i < j => mlog.out[i].quality >= mlog.out[j].quality

\* C15 as stated: a profile gets the N sources of highest quality_score,
\* N being 5 for quick, 15 for balanced, and every source above the
\* threshold (no fixed cap) for comprehensive.
C15_ProfileSizes ==
    mlog.returned /\ mlog.profile # "custom" =>
        TopOfCatalog(CASE mlog.profile = "quick" -> 5
                       [] mlog.profile = "balanced" -> 15
                       [] OTHER -> Cardinality({e \in Entries(mgr.sources) :
                                                   e.quality >= min_source_score}))

\* C15 amended: a profile gets the N sources of highest quality_score, in
\* descending order, N being 5 for quick, 15 for balanced,
\* MAX_SOURCES_PER_CATEGORY (15) for comprehensive and 10 for any other
\* profile; no threshold is applied.
C15_TopByQuality ==
    mlog.returned =>
        TopOfCatalog(CASE mlog.profile = "quick" -> 5
                       [] mlog.profile = "balanced" -> 15
                       [] mlog.profile = "comprehensive" -> 15
                       [] OTHER -> 10)

\* a quick set that leaves out an earlier source of the catalog for a later
\* one of higher score
C15_Witness ==
    /\ mlog.returned
    /\ mlog.profile = "quick"
    /\ Len(mlog.out) = 5
    /\ \E i, j \in 1..Len(mgr.sources) :
          /\ i < j
          /\ mgr.sources[i].quality < mgr.sources[j].quality
          /\ mgr.sources[j].name \in {o.name : o \in Returned}
          /\ mgr.sources[i].name \notin {o.name : o \in Returned}

\* the state a refresh leaves
AfterRefresh == mlog.refreshed /\ mgr.pc = "return"

\* the source is in the catalog with the scores of its feed as it is now
Rescored(e) ==
    \E a \in Entries(mgr.sources) :
        /\ a.name = e.name
        /\ a.validated
        /\ a.quality = validate_rss_feed(FeedOf(e.name)).quality

AfterStart ==
    /\ mlog.start # "none"
    /\ mgr.pc # "idle"
    /\ ~mlog.discovered

\* C17: on start the manager reloads the persisted catalog, without
\* validating it again, exactly when the file exists and its cached_at is
\* within the refresh interval; otherwise it starts from the seed catalog.
C17_StartFromCatalog ==
    AfterStart =>
        /\ mlog.start = "reloaded" <=>
              (dyn_cache.kind = "json" /\ now - dyn_cache.cached_at < refresh_hours)
        /\ mlog.start = "reloaded" =>
              /\ mgr.sources = load_sources(dyn_cache.sources)
              /\ ~mgr.force => mgr.pc = "return"
        /\ mlog.start = "bootstrapped" => mgr.sources = SeedCatalog

\* a start that reloaded a catalog another run had refreshed
C17_Witness ==
    /\ AfterStart
    /\ mlog.start = "reloaded"
    /\ mgr.pc = "return"
    /\ mgr.sources # SeedCatalog
    /\ \E e \in Entries(mgr.sources) : e.validated

-----------------------------------------------------------------------------
(* Sources that give the links of their items a query string (a tracking    *)
(* parameter such as ?utm_source=rss) in front of the same page.            *)

\* the url with a query string
WithQuery(link) == IF link = NoUrl THEN link ELSE [link EXCEPT !.query = 1]

Tracked(response) ==
    [i \in 1..Len(response) |-> [response[i] EXCEPT !.link = WithQuery(@)]]

InitVariants ==
    /\ Init
    /\ env = [caching |-> FALSE, realtime_search |-> FALSE]
    /\ cache = [k \in CacheKeys |-> NoFile]

\* lines 552-562: one round of the loop, on a source whose links carry a
\* query string
FetchTracked ==
    /\ pc = "sources"
    /\ idx < Len(sources)
    /\ LET name == sources[idx + 1]
           key == get_cache_key(name)
       IN  \E o \in ProviderOutcomes(name, now), read_ok \in BOOLEAN :
           \E r \in {fetch_from_source(env.caching, cache[key], name, o.reachable,
                                       Tracked(o.response), read_ok, "ok", now)} :
              LET articles == IF r.raised THEN <<>>
                              ELSE WithWeight(r.articles, SourceConfig(name).weight)
              IN  /\ cache' = [cache EXCEPT ![key] = r.file]
                  /\ all_articles' = all_articles \o articles
                  /\ visited' = Append(visited, [stage |-> name, n |-> Len(articles)])
                  /\ idx' = next_source(idx, articles)
    /\ UNCHANGED <<auxVars, env, now, pc, profile, sources, max_articles, pool, scoredAt,
                   result, lastPut, lastGet>>

NextVariants == Call \/ FetchSource \/ FetchTracked \/ Process

SpecVariants == InitVariants /\ [][NextVariants]_vars

\* C18: when two sources return the same article under urls that differ only
\* in their query string, the list an aggregation call returns holds that
\* article once.
C18_OncePerPage ==
    pc = "done" =>
        \A i, j \in ResultIdx :
            i < j =>
                ~(/\ result[i].link # NoUrl
                  /\ result[i].link.dom = result[j].link.dom
                  /\ result[i].link.path = result[j].link.path
                  /\ result[i].link.query # result[j].link.query
                  /\ result[i].source # result[j].source)

-----------------------------------------------------------------------------
(* extract_article_text.  A text is its number of characters; a page is     *)
(* the number of characters of its visible text and of its scripts and      *)
(* styles.                                                                  *)

\* text[:5000]
text_limit == 5000
\* pages have up to MaxPage characters less or more than the limit
MaxPage == 4

PageLengths == {0} \cup {n \in (text_limit - MaxPage)..(text_limit + MaxPage) : n >= 0}

Pages == [visible : PageLengths, scripts : {0, text_limit}]

\* what the download of the page meets
DownloadOutcomes == {"ok", "timeout", "error"}

\* soup.get_text() after script.decompose(), and article.text
get_text(page) == page.visible

\* extract_article_text: imported = FALSE when newspaper is not installed
extract_article_text(imported, outcome, page) ==
    IF imported
    THEN [raised |-> FALSE, text |-> IF outcome = "ok" THEN get_text(page) ELSE 0]
    ELSE [raised |-> FALSE,
          text |-> IF outcome = "ok" THEN Min(get_text(page), text_limit) ELSE 0]

InitExtract == InitSearch

ExtractCall ==
    /\ \E imported \in BOOLEAN, outcome \in DownloadOutcomes, page \in Pages :
       \E r \in {extract_article_text(imported, outcome, page)} :
          ext' = [pc |-> IF r.raised THEN "raised" ELSE "returned",
                  imported |-> imported, outcome |-> outcome, page |-> page,
                  text |-> r.text, raised |-> r.raised]
    /\ UNCHANGED <<coreVars, now, ddg, mgrVars, laterVars>>

NextExtract == ExtractCall

SpecExtract == InitExtract /\ [][NextExtract]_vars

\* C19: extract_article_text never raises and returns a string of at most
\* about 5000 characters on every extraction path; on failure it returns the
\* empty string.
C19_BoundedText ==
    ext.pc # "idle" =>
        /\ ~ext.raised
        /\ ext.text <= text_limit
        /\ ext.outcome # "ok" => ext.text = 0

-----------------------------------------------------------------------------
(* The cache protocol of fetch_from_source, checked under SpecCache *)

\* the entry a write of the fetched articles leaves at this hour
WholeEntry(articles, t) ==
    [kind |-> "json", timestamp |-> isoformat(Naive(t)), articles |-> json_dump(articles)]

\* the call was served from the cache
ServedFromCache == lastGet.got.hit /\ lastGet.got.articles # <<>>

\* C20 as stated: the cache is read before the strategy is invoked, on a
\* valid hit the strategy is not invoked, and after every successful fetch,
\* one that yields no article included, the entry under the key of the
\* source is written, replacing the previous entry as a whole.
C20_WrittenAfterEveryFetch ==
    GetDone /\ env.caching /\ lastGet.write = "ok" =>
        /\ lastGet.got = load_from_cache(env.caching, lastGet.file, lastGet.read_ok, lastGet.at)
        /\ lastGet.got.hit => ~lastGet.invoked
        /\ lastGet.invoked /\ lastGet.reachable =>
              cache[lastGet.key] = WholeEntry(lastGet.fresh, lastGet.at)

\* C20 amended: the cache is read before the strategy is invoked; on a hit
\* that holds articles the strategy is not invoked and the entry stays as it
\* was; otherwise the strategy is invoked, and when it yields at least one
\* article, caching is enabled and the write succeeds, the entry under the
\* key of the source is that fetch's articles alone, stamped with the hour
\* of the write; a fetch that yields no article leaves the entry as it was.
C20_CacheProtocol ==
    GetDone =>
        /\ lastGet.got = load_from_cache(env.caching, lastGet.file, lastGet.read_ok, lastGet.at)
        /\ lastGet.invoked <=> ~ServedFromCache
        /\ ServedFromCache =>
              /\ lastGet.returned = lastGet.got.articles
              /\ cache[lastGet.key] = lastGet.file
        /\ lastGet.invoked /\ lastGet.fresh # <<>> /\ env.caching /\ lastGet.write = "ok" =>
              cache[lastGet.key] = WholeEntry(lastGet.fresh, lastGet.at)
        /\ lastGet.invoked /\ (lastGet.fresh = <<>> \/ ~env.caching) =>
              cache[lastGet.key] = lastGet.file

\* a fetch that found an expired entry and replaced it by other articles
C20_Witness ==
    /\ GetDone
    /\ lastGet.invoked
    /\ lastGet.saved
    /\ lastGet.write = "ok"
    /\ lastGet.file.kind = "json"
    /\ lastGet.file.articles # json_dump(lastGet.fresh)
    /\ cache[lastGet.key] = WholeEntry(lastGet.fresh, lastGet.at)

-----------------------------------------------------------------------------
(* Deduplication, checked under Spec on the articles a call has gathered *)

\* the article is in the list deduplicate_articles returns
KeptByDedup(a) ==
    \E k \in 1..Len(deduplicate_articles(all_articles)) :
        deduplicate_articles(all_articles)[k] = a

\* C21: deduplication drops an article only when an earlier kept article
\* has the same url, or, for an article without url, the same normalized
\* title: an article with a url that no earlier article has is kept whatever
\* its title, and an article without url whose normalized title no earlier
\* article has is kept.
C21_TwoStage ==
    \A j \in 1..Len(all_articles) :
        LET a == all_articles[j]
        IN  /\ (a.link # NoUrl /\ \A i \in 1..(j - 1) : ~SameUrl(all_articles[i].link, a.link))
                  => KeptByDedup(a)
            /\ (a.link = NoUrl
                /\ \A i \in 1..(j - 1) :
                      strip_punctuation(lower(all_articles[i].title))
                         # strip_punctuation(lower(a.title)))
                  => KeptByDedup(a)

-----------------------------------------------------------------------------
(* The order of the returned list, checked under Spec *)

\* the articles of the k-th stage visited, cut out of all_articles
RECURSIVE StageStart(_)
StageStart(k) == IF k = 1 THEN 1 ELSE StageStart(k - 1) + visited[k - 1].n

StageArticles(k) == SubSeq(all_articles, StageStart(k), StageStart(k) + visited[k].n - 1)

\* the articles gathered had the sources been fetched in the reverse order
RECURSIVE SourcesReversed(_)
SourcesReversed(k) ==
    IF k = 0 THEN <<>> ELSE StageArticles(k) \o SourcesReversed(k - 1)

GatheredReversed ==
    SourcesReversed(Len(sources))
       \o (IF Len(visited) > Len(sources) THEN StageArticles(Len(visited)) ELSE <<>>)

\* C22 as stated: the returned list and its order depend only on the fetched
\* articles and their scores: with the sources fetched in another order the
\* call returns the same list in the same order.
C22_OrderIndependent ==
    pc = "done" =>
        result = Slice(sort_articles_by_relevance(
                          filter_articles(deduplicate_articles(GatheredReversed)), scoredAt),
                       max_articles)

\* the first place of an article in the gathered list
FirstPlace(a) == CHOOSE i \in 1..Len(all_articles) :
                    /\ all_articles[i] = a
                    /\ \A k \in 1..(i - 1) : all_articles[k] # a

\* C22 amended: the sources are fetched one after the other in the order of
\* the profile, the search last; the returned list is in descending order of
\* score, and articles of equal score are in the order in which they were
\* gathered, so the list depends on the order of the sources as well.
C22_EncounterOrder ==
    pc = "done" =>
        /\ Len(visited) >= Len(sources)
        /\ \A k \in 1..Len(sources) : visited[k].stage = sources[k]
        /\ \A k \in 1..Len(visited) : k > Len(sources) => visited[k].stage = "realtime_search"
        /\ \A i, j \in ResultIdx :
              i < j =>
                 \/ calculate_score(result[i], scoredAt) > calculate_score(result[j], scoredAt)
                 \/ /\ calculate_score(result[i], scoredAt) = calculate_score(result[j], scoredAt)
                    /\ FirstPlace(result[i]) < FirstPlace(result[j])

\* a returned list with two articles of equal score from one source and an
\* article of another source
C22_Witness ==
    /\ pc = "done"
    /\ \E i, j \in ResultIdx :
          /\ i < j
          /\ calculate_score(result[i], scoredAt) = calculate_score(result[j], scoredAt)
    /\ \E i, j \in ResultIdx : result[i].source # result[j].source

-----------------------------------------------------------------------------
(* One cache file written and read by several processes.  save_to_cache     *)
(* opens the file with mode 'w', which empties it, and json.dump reaches    *)
(* the file in several writes, each at the offset of the writer; the file   *)
(* is a sequence of cells, one per write.  No lock is taken and the file is *)
(* not renamed into place.                                                  *)

\* the articles of a put of process w: n articles of its own
PutArticles(w, n) == [i \in 1..n |-> <<w, i>>]

\* the text json.dump writes: the timestamp, the articles, the closing
PutText(w, n) ==
    <<[kind |-> "timestamp", w |-> w, art |-> <<>>]>>
    \o [i \in 1..n |-> [kind |-> "article", w |-> w, art |-> <<w, i>>]]
    \o <<[kind |-> "closing", w |-> w, art |-> <<>>]>>

\* bytes never written, behind the end of a file emptied by another process
Hole == [kind |-> "hole", w |-> 0, art |-> <<>>]

\* a write of one cell at an offset
WriteAt(file, off, cell) ==
    [i \in 1..Max(Len(file), off + 1) |->
        IF i = off + 1 THEN cell ELSE IF i <= Len(file) THEN file[i] ELSE Hole]

\* json.load: the text parses when it is a timestamp, articles and a closing
Parses(file) ==
    /\ Len(file) >= 2
    /\ file[1].kind = "timestamp"
    /\ file[Len(file)].kind = "closing"
    /\ \A i \in 2..(Len(file) - 1) : file[i].kind = "article"

\* load_from_cache on the file as it is, within the ttl
load_racing(exists, file) ==
    IF ~exists THEN Miss
    ELSE IF ~Parses(file) THEN Miss
    ELSE Hit([i \in 1..(Len(file) - 2) |-> file[i + 1].art])

InitRace == InitSearch

\* line 87: open(cache_file, 'w')
PutOpen(w) ==
    /\ race.writers[w].pc = "idle"
    /\ \E n \in 1..MaxItems :
          race' = [race EXCEPT !.file = <<>>, !.exists = TRUE, !.read = FALSE,
                               !.writers[w] = [pc |-> "open", off |-> 0, n |-> n]]
    /\ UNCHANGED <<coreVars, now, ddg, mgrVars, ext, strat, disc, catalog, trig>>

\* lines 88-91: one write of json.dump, and the close after the last one
PutWrite(w) ==
    /\ race.writers[w].pc = "open"
    /\ LET wr == race.writers[w]
           text == PutText(w, wr.n)
       IN  race' = [race EXCEPT
                      !.file = WriteAt(race.file, wr.off, text[wr.off + 1]),
                      !.read = FALSE,
                      !.writers[w] = IF wr.off + 1 = Len(text) THEN NotWriting
                                     ELSE [wr EXCEPT !.off = wr.off + 1]]
    /\ UNCHANGED <<coreVars, now, ddg, mgrVars, ext, strat, disc, catalog, trig>>

\* lines 56-77: load_from_cache by a further process
RaceGet ==
    /\ race' = [race EXCEPT !.got = load_racing(race.exists, race.file), !.read = TRUE]
    /\ UNCHANGED <<coreVars, now, ddg, mgrVars, ext, strat, disc, catalog, trig>>

NextRace == (\E w \in Writers : PutOpen(w) \/ PutWrite(w)) \/ RaceGet

SpecRace == InitRace /\ [][NextRace]_vars

\* C23: a cache entry is never observed corrupted: a get that interleaves
\* with puts of other aggregation calls returns a miss or the complete list
\* of one put, never a partial or mixed list.
C23_NeverMixed ==
    race.read /\ race.got.hit =>
        \E w \in Writers, n \in 1..MaxItems : race.got.articles = PutArticles(w, n)

-----------------------------------------------------------------------------
(* Further properties of the source manager, checked under SpecSources *)

\* C24: every source of the catalog, after any sequence of load, bootstrap,
\* discovery and refresh, carries a freshness_score and a relevance score,
\* and its quality_score is 0.6 * freshness_score + 0.4 * relevance.
C24_QualityFormula ==
    \A e \in Entries(mgr.sources) :
        /\ e.validated
        /\ e.quality = 2 * e.freshness + 8 * e.relevance

-----------------------------------------------------------------------------
(* The fetch strategies on responses longer than the cap of a source *)

\* the longest response: one item more than max_articles_per_source
MaxFeed == 6

\* a response of n items, the items of `old` being older than the window
LongResponse(type, n, old, t) ==
    [i \in 1..n |->
        Item(Title(i, FALSE, FALSE), Url("news.mit.edu", i, FALSE),
             Dated(IF type = "arxiv_api"
                   THEN Aware(IF i \in old THEN t - lookback_hours - 1 ELSE t)
                   ELSE Naive(IF i \in old THEN t - lookback_hours - 1 ELSE t)),
             Absent, {})]

StrategyTypes == {"rss", "arxiv_api", "reddit_api"}

StrategyOn(type, entries, t) ==
    CASE type = "rss" -> parse_rss_feed(TRUE, entries, "mit_news", t)
      [] type = "arxiv_api" -> fetch_arxiv_api(TRUE, entries, t)
      [] type = "reddit_api" -> fetch_reddit_api(TRUE, entries, t)

InitStrategy == InitSearch

StrategyCall ==
    /\ \E type \in StrategyTypes, n \in 0..MaxFeed :
       \E old \in SUBSET (1..n) :
       \E entries \in {LongResponse(type, n, old, now)} :
          strat' = [pc |-> "returned", type |-> type, entries |-> entries,
                    out |-> StrategyOn(type, entries, now)]
    /\ UNCHANGED <<coreVars, now, ddg, mgrVars, ext, race, disc, catalog, trig>>

NextStrategy == StrategyCall

SpecStrategy == InitStrategy /\ [][NextStrategy]_vars

\* the links of a list of items or articles
Links(list) == [i \in 1..Len(list) |-> list[i].link]

\* C25: a fetch strategy returns at most the configured cap of articles per
\* source, and they are the items within the lookback window cut to the
\* cap: older items are discarded first and do not count against the cap.
C25_WindowThenCap ==
    strat.pc = "returned" =>
        /\ Len(strat.out) <= max_articles_per_source
        /\ Links(strat.out) =
              Links(Slice(SelectSeq(strat.entries,
                                    LAMBDA e : ~(now - e.date.dt.t > lookback_hours)),
                          max_articles_per_source))

-----------------------------------------------------------------------------
(* The bonus of the academic sources *)

\* what "Boost academic sources slightly" adds to the score of an article
CategoryBonus(article, t) ==
    calculate_score(article, t)
       - calculate_score([article EXCEPT !.source_type = "unknown"], t)

\* C26: the score of an article holds a bonus of 2 exactly when the
\* category of the source it came from is "academic", whatever the type of
\* that source, and no bonus otherwise.
C26_AcademicCategory ==
    \A k \in 1..Len(visited) :
       visited[k].stage # "realtime_search" =>
          \A i \in 1..visited[k].n :
             LET a == StageArticles(k)[i]
             IN  ~ScoreRaises(a) =>
                    CategoryBonus(a, now) =
                       IF SourceConfig(visited[k].stage).category = "academic"
                       THEN 2 * 1200 ELSE 0

-----------------------------------------------------------------------------
(* The seed catalog on its way to a caller *)

\* get_dynamic_sources has returned from a manager that started from the seeds
ServedFromSeeds == mlog.start = "bootstrapped" /\ mlog.returned

\* C27: when get_dynamic_sources serves a catalog that was started from the
\* seed list (file absent or stale), discovery and validation have run
\* before it returns: no seed entry that was not validated is handed to the
\* caller, and the validated catalog is in the file.
C27_SeedsValidatedFirst ==
    ServedFromSeeds =>
        /\ mlog.discovered
        /\ mlog.refreshed
        /\ \A e \in Entries(mgr.sources) : e.type = "seed" => e.validated
        /\ mlog.write = "ok" =>
              dyn_cache = save_sources_cache(dyn_cache, mgr.sources, "ok", now)

-----------------------------------------------------------------------------
(* discover_new_sources and refresh_source_scores called on the manager, as *)
(* force_source_refresh and manage_sources.py call them.                    *)

\* a limit below the number of seeds a discovery can find
SmallMaxNew == 1

\* the values of max_new
MaxNewValues == {SmallMaxNew, refresh_max_new}

\* DynamicSourceManager() with no catalog file
InitDiscover ==
    /\ env = CHOOSE e \in Environments : e.caching /\ e.realtime_search
    /\ now = 0
    /\ cache = [k \in CacheKeys |-> NoFile]
    /\ pc = "idle"
    /\ profile = ""
    /\ sources = <<>>
    /\ max_articles = 0
    /\ idx = 0
    /\ all_articles = <<>>
    /\ visited = <<>>
    /\ pool = <<>>
    /\ scoredAt = 0
    /\ result = <<>>
    /\ lastPut = [k \in CacheKeys |-> NoPut]
    /\ lastGet = NoGet
    /\ ddg = NoSearch
    /\ feeds \in [Watched -> FeedConds]
    /\ dyn_cache = NoCatalog
    /\ mgr = [NoManager EXCEPT !.started = TRUE,
                               !.sources = load_cached_sources(NoCatalog, 0).sources]
    /\ mlog = NoLog
    /\ ext = NoExtract
    /\ LaterIdle

\* manager.discover_new_sources(max_new)
DirectDiscover ==
    /\ \E max_new \in MaxNewValues, found \in SUBSET Discoverable, write \in WriteOutcomes :
       \E d \in {discover_new_sources(mgr.sources, found, max_new)} :
          /\ mgr' = [mgr EXCEPT !.sources = d.sources]
          /\ dyn_cache' = IF d.added > 0
                          THEN save_sources_cache(dyn_cache, d.sources, write, now)
                          ELSE dyn_cache
          /\ disc' = [pc |-> "returned", before |-> mgr.sources, max_new |-> max_new,
                      added |-> d.added, write |-> write]
    /\ UNCHANGED <<coreVars, now, ddg, feeds, mlog, ext, race, strat, catalog, trig>>

\* manager.refresh_source_scores()
DirectRefresh ==
    /\ \E write \in WriteOutcomes :
       \E r \in {refresh_source_scores(mgr.sources)} :
          /\ mgr' = [mgr EXCEPT !.sources = r]
          /\ dyn_cache' = save_sources_cache(dyn_cache, r, write, now)
    /\ disc' = NoDiscovery
    /\ UNCHANGED <<coreVars, now, ddg, feeds, mlog, ext, race, strat, catalog, trig>>

\* a feed changes between two calls
DirectFeedChange ==
    /\ \E w \in [Watched -> FeedConds] : w # feeds /\ feeds' = w
    /\ disc' = NoDiscovery
    /\ UNCHANGED <<coreVars, now, ddg, dyn_cache, mgr, mlog, ext, race, strat, catalog, trig>>

NextDiscover == DirectDiscover \/ DirectRefresh \/ DirectFeedChange

SpecDiscover == InitDiscover /\ [][NextDiscover]_vars

\* the number of sources the last call of discover_new_sources put in the catalog
Grown == Len(mgr.sources) - Len(disc.before)

\* C28: a call discover_new_sources(max_new) adds at most max_new sources to
\* the catalog, returns the number of sources it added, and when it added
\* at least one source the catalog is written to the file.
C28_DiscoverCounts ==
    disc.pc = "returned" =>
        /\ Grown <= disc.max_new
        /\ disc.added = Grown
        /\ (Grown >= 1 /\ disc.write = "ok") =>
              dyn_cache = save_sources_cache(dyn_cache, mgr.sources, "ok", now)

-----------------------------------------------------------------------------
(* get_sources_by_profile with CUSTOM_NEWS_SOURCES set.  The function       *)
(* writes the custom entries into the dict it took out of PROFILE_MAP.      *)

\* the values of CUSTOM_NEWS_SOURCES split at the commas
CustomLists == UNION {[1..n -> 0..NumCustomUrls] : n \in 0..MaxCustom}

\* the profiles the callers of this part pass
CustomCallers == {"quick", "extended"}

\* lines 270-277: the key of PROFILE_MAP the call reads
ProfileKey(p, env_profile) ==
    LET chosen == IF env_profile \in ProfileNames THEN env_profile ELSE p
    IN  IF chosen \in ProfileNames THEN chosen ELSE "balanced"

\* lines 280-290: sources[f'custom_{idx}'] = {...} for every item that is a url
WithCustom(dict, custom_sources) ==
    [i \in CustomKeys |->
        IF i + 1 <= Len(custom_sources) /\ custom_sources[i + 1] # 0
        THEN custom_sources[i + 1] ELSE dict[i]]

InitProfiles == InitSearch

ProfileCall ==
    /\ \E p \in CustomCallers, env_profile \in FeedProfiles, custom_sources \in CustomLists :
       \E key \in {ProfileKey(p, env_profile)} :
       \E dict \in {WithCustom(catalog.custom[key], custom_sources)} :
          catalog' = [pc |-> "returned",
                      custom |-> [catalog.custom EXCEPT ![key] = dict],
                      key |-> key, env |-> custom_sources,
                      out |-> [static |-> get_sources_by_profile(p, env_profile),
                               custom |-> dict]]
    /\ UNCHANGED <<coreVars, now, ddg, mgrVars, ext, race, strat, disc, trig>>

NextProfiles == ProfileCall

SpecProfiles == InitProfiles /\ [][NextProfiles]_vars

\* C29: get_sources_by_profile never modifies the static catalog: after any
\* sequence of calls the set returned for a profile is the static
\* definition of the profile plus exactly the custom sources of the
\* environment of that call; the custom sources of earlier calls and of
\* other profiles are gone.
C29_CatalogUntouched ==
    /\ \A p \in ProfileNames : catalog.custom[p] = NoCustom
    /\ catalog.pc = "returned" =>
          /\ catalog.out.static = PROFILE_MAP(catalog.key)
          /\ catalog.out.custom = WithCustom(NoCustom, catalog.env)

-----------------------------------------------------------------------------
(* main_scheduled.py: execute_briefing_workflow, one frame of the recursion *)
(* per step, and what it calls: NewsAgentWorkflow.execute and              *)
(* ExecutionTracker.record_execution.                                       *)

\* MAX_RETRIES
MAX_RETRIES == 3

\* what NewsAgentWorkflow(...).execute() does: it returns self.results with
\* or without a briefing, or raises in _log_config, before its try
ExecuteOutcomes == {"briefing", "no_briefing", "raises"}

\* self.results as execute returns it: the two times are isoformat strings
ResultsOf(outcome) ==
    [briefing_generated |-> outcome = "briefing",
     start_time |-> "str", end_time |-> "str"]

\* record_execution: end_time - start_time is evaluated when both are set,
\* and the difference of two str raises TypeError
record_execution_raises(results) ==
    /\ results.end_time # "None"
    /\ results.start_time # "None"

InitTrigger == InitSearch

\* the scheduler calls execute_briefing_workflow()
TriggerFires ==
    /\ trig.pc = "idle"
    /\ \E retry \in BOOLEAN, notify \in BOOLEAN :
          trig' = [NoTrigger EXCEPT !.pc = "running", !.retry = retry, !.notify = notify]
    /\ UNCHANGED <<coreVars, now, ddg, mgrVars, ext, race, strat, disc, catalog>>

\* lines 239-247 and 254-262: retry, or notify and return False
RetryOrFail(t) ==
    IF t.retry /\ t.retry_count < MAX_RETRIES
    THEN [t EXCEPT !.retry_count = @ + 1]
    ELSE [t EXCEPT !.pc = "done", !.notified = t.notify, !.returned = "False"]

\* one call of execute_briefing_workflow(config, retry_count)
RunWorkflow ==
    /\ trig.pc = "running"
    /\ \E outcome \in ExecuteOutcomes :
          LET results == ResultsOf(outcome)
              ran == [trig EXCEPT !.runs = Append(@, outcome)]
              raised == outcome = "raises" \/ record_execution_raises(results)
          IN  trig' = IF raised THEN RetryOrFail(ran)
                      ELSE IF results.briefing_generated
                           THEN [ran EXCEPT !.pc = "done", !.returned = "True"]
                           ELSE RetryOrFail(ran)
    /\ UNCHANGED <<coreVars, now, ddg, mgrVars, ext, race, strat, disc, catalog>>

\* the trigger is over; the scheduler waits for the next one
TriggerEnds ==
    /\ trig.pc = "done"
    /\ trig' = NoTrigger
    /\ UNCHANGED <<coreVars, now, ddg, mgrVars, ext, race, strat, disc, catalog>>

NextTrigger == TriggerFires \/ RunWorkflow \/ TriggerEnds

SpecTrigger == InitTrigger /\ [][NextTrigger]_vars

\* C30: for one trigger the workflow runs at most MAX_RETRIES + 1 times, and
\* a run that generated a briefing ends the trigger with True: no retry and
\* no failure notification follows it.
C30_SuccessEndsTrigger ==
    /\ Len(trig.runs) <= MAX_RETRIES + 1
    /\ \A i \in 1..Len(trig.runs) :
          trig.runs[i] = "briefing" =>
             /\ i = Len(trig.runs)
             /\ trig.pc = "done"
             /\ trig.returned = "True"
             /\ ~trig.notified

====
